---- MODULE Spec2Model ----
(***************************************************************************)
(* MemoryDocumentStore (haystack/preview/document_stores/memory/           *)
(* document_store.py): the storage map, its write/delete contract and the  *)
(* BM25 retrieval read path, as a state machine over the store's dict.     *)
(***************************************************************************)
EXTENDS Integers, Sequences, FiniteSets, TLC

VARIABLES storage, last

vars == <<storage, last>>

(* ------------------------------ bounds --------------------------------- *)
MaxId == 2
MaxBatch == 2
MaxTopK == 2
MaxScore == 1

(* ------------------------- program constants --------------------------- *)
SCALING_FACTOR == 8

(* ------------------------------ documents ------------------------------ *)
Ids == 1..MaxId

ContentTypes == {"text", "table", "image"}

\* The content a Document of each content type carries: a string, a
\* DataFrame, a path.
ContentOf(content_type) ==
  CASE content_type = "text" -> "Some Text"
    [] content_type = "table" -> "A,B / 1,2"
    [] OTHER -> "image.png"

\* Document: id, content_type, content and the optional score (<<>> is None).
Document ==
  {[id |-> id, content_type |-> t, content |-> ContentOf(t), score |-> <<>>] :
     id \in Ids, t \in ContentTypes}

\* An element of a batch that is not a Document instance.
NotADocument == [id |-> 0, content_type |-> "none", content |-> "", score |-> <<>>]

isinstance_Document(x) == x \in Document

DuplicatePolicy == {"skip", "overwrite", "fail"}

(* ------------------- the dict self.storage (ordered) ------------------- *)
\* A Python dict keeps insertion order: a sequence of records, one per key.
keys(st) == {st[i].id : i \in DOMAIN st}

getitem(st, id) == st[CHOOSE i \in DOMAIN st : st[i].id = id]

\* A store that keeps the record already held under an existing key.
setitem_KeepExisting(st, doc) ==
  IF doc.id \in keys(st) THEN st ELSE Append(st, doc)

\* A store that adds an entry on every assignment.
setitem_AlwaysAppend(st, doc) == Append(st, doc)

\* storage[key] = value: an existing key keeps its position, a new key is appended.
setitem(st, doc) ==
  IF doc.id \in keys(st)
    THEN [i \in DOMAIN st |-> IF st[i].id = doc.id THEN doc ELSE st[i]]
    ELSE Append(st, doc)

RECURSIVE delitem(_, _)
delitem(st, id) ==
  IF st = <<>> THEN <<>>
  ELSE IF Head(st).id = id THEN Tail(st)
  ELSE <<Head(st)>> \o delitem(Tail(st), id)

\* len(self.storage.keys()): one key per entry of the dict.
count_documents_value(st) == Len(st)

(* ------------------------------ the caller ---------------------------- *)
\* `last` is the outcome of the call in progress as its caller sees it (the
\* arguments, the dict before the call, the error raised or the value
\* returned); the caller takes the outcome before it makes the next call.
NoCall == [op |-> "idle", err |-> "None"]

Idle == last = NoCall

(* ------------------------------- __init__ ------------------------------ *)
\* The names a caller can pass as bm25_algorithm: the three scorer classes
\* of rank_bm25 and a name the module does not define.
AlgorithmNames == {"BM25Okapi", "BM25L", "BM25Plus", "BM25Unknown"}

\* getattr(rank_bm25, bm25_algorithm) (line 40): the class, or AttributeError
\* when the module has no attribute of that name; getattr without a default
\* never returns None.
getattr_rank_bm25(bm25_algorithm) ==
  IF bm25_algorithm \in {"BM25Okapi", "BM25L", "BM25Plus"}
    THEN [value |-> bm25_algorithm, err |-> "None"]
    ELSE [value |-> "None", err |-> "AttributeError"]

\* Lines 38-44: the outcome of the constructor.
Construct(bm25_algorithm) ==
  LET algorithm_class == getattr_rank_bm25(bm25_algorithm)
  IN  IF algorithm_class.err # "None"
        THEN [op |-> "init", bm25_algorithm |-> bm25_algorithm,
              err |-> algorithm_class.err]
      ELSE IF algorithm_class.value = "None"
        THEN [op |-> "init", bm25_algorithm |-> bm25_algorithm,
              err |-> "UnknownAlgorithm"]
      ELSE [op |-> "init", bm25_algorithm |-> bm25_algorithm, err |-> "None"]

\* A constructor that raised produced no store: no call can follow.
ConstructionFailed == last.op = "init" /\ last.err # "None"

Return ==
  /\ ~Idle
  /\ ~ConstructionFailed
  /\ last' = NoCall
  /\ UNCHANGED storage

(* --------------------------- write_documents --------------------------- *)
\* The kinds of argument a caller can pass as `documents`.
BatchKinds == {"list", "iterator", "str", "noniterable"}

RECURSIVE SeqsUpTo(_, _)
SeqsUpTo(S, n) ==
  IF n = 0 THEN {<<>>}
  ELSE LET shorter == SeqsUpTo(S, n - 1)
       IN  shorter \cup {Append(s, x) : s \in {t \in shorter : Len(t) = n - 1}, x \in S}

\* any(not isinstance(doc, Document) for doc in documents)
AnyNotDocument(elems) == \E i \in DOMAIN elems : ~isinstance_Document(elems[i])

\* A guard that looks at the first element only.
InvalidBatch_FirstOnly(kind, elems) ==
  \/ kind = "noniterable"
  \/ kind = "str"
  \/ (elems # <<>> /\ ~isinstance_Document(elems[1]))

\* The guard of lines 140-144: TRUE when ValueError is raised.
InvalidBatch(kind, elems) ==
  \/ kind = "noniterable"
  \/ kind = "str"
  \/ AnyNotDocument(elems)

\* What `for document in documents` iterates once the guard has run any() over
\* the argument: a list is iterated again from its start, a one-shot iterator
\* has been exhausted by any().
LoopDocuments(kind, elems) == IF kind = "iterator" THEN <<>> ELSE elems

\* A loop body without the raise of line 150.
WriteOne_NoRaise(st, document, duplicates) ==
  [storage |-> setitem(st, document), err |-> "None"]

\* One pass of the loop body (lines 148-153) on the dict st.
WriteOne(st, document, duplicates) ==
  IF document.id \in keys(st) /\ duplicates = "fail"
    THEN [storage |-> st, err |-> "DuplicateDocumentError"]
    ELSE [storage |-> setitem(st, document), err |-> "None"]

\* A transactional loop: a raise restores the dict the call started with.
RECURSIVE WriteLoop_Rollback(_, _, _, _)
WriteLoop_Rollback(steps, docs, i, duplicates) ==
  IF i > Len(docs) THEN [steps |-> steps, err |-> "None"]
  ELSE LET r == WriteOne(steps[Len(steps)], docs[i], duplicates)
       IN  IF r.err # "None" THEN [steps |-> <<steps[1]>>, err |-> r.err]
           ELSE WriteLoop_Rollback(Append(steps, r.storage), docs, i + 1, duplicates)

\* The loop of lines 147-153: steps[i] is the dict before document i is
\* processed; the loop stops at the first raise.
RECURSIVE WriteLoop(_, _, _, _)
WriteLoop(steps, docs, i, duplicates) ==
  IF i > Len(docs) THEN [steps |-> steps, err |-> "None"]
  ELSE LET r == WriteOne(steps[Len(steps)], docs[i], duplicates)
       IN  IF r.err # "None" THEN [steps |-> steps, err |-> r.err]
           ELSE WriteLoop(Append(steps, r.storage), docs, i + 1, duplicates)

write_documents(kind, elems, duplicates) ==
  IF InvalidBatch(kind, elems)
    THEN /\ last' = [op |-> "write", kind |-> kind, documents |-> elems,
                     duplicates |-> duplicates, pre |-> storage,
                     steps |-> <<storage>>, err |-> "InvalidInput"]
         /\ UNCHANGED storage
    ELSE LET run == WriteLoop(<<storage>>, LoopDocuments(kind, elems), 1, duplicates)
         IN  /\ storage' = run.steps[Len(run.steps)]
             /\ last' = [op |-> "write", kind |-> kind, documents |-> elems,
                         duplicates |-> duplicates, pre |-> storage,
                         steps |-> run.steps, err |-> run.err]

\* The arguments of the model: sequences of Documents and other objects.
Batches == SeqsUpTo(Document \cup {NotADocument}, MaxBatch)

WriteDocuments ==
  /\ Idle
  /\ \E kind \in BatchKinds, duplicates \in DuplicatePolicy :
       \E elems \in Batches :
         /\ kind \in {"str", "noniterable"} => elems = <<>>
         /\ write_documents(kind, elems, duplicates)

(* -------------------------- delete_documents --------------------------- *)
\* A transactional delete: a raise restores the dict the call started with.
RECURSIVE DeleteLoop_Rollback(_, _, _)
DeleteLoop_Rollback(steps, document_ids, i) ==
  IF i > Len(document_ids) THEN [steps |-> steps, err |-> "None"]
  ELSE IF document_ids[i] \notin keys(steps[Len(steps)])
    THEN [steps |-> <<steps[1]>>, err |-> "MissingDocumentError"]
    ELSE DeleteLoop_Rollback(Append(steps, delitem(steps[Len(steps)], document_ids[i])),
                             document_ids, i + 1)

\* The loop of lines 162-165: steps[i] is the dict before id i is processed.
RECURSIVE DeleteLoop(_, _, _)
DeleteLoop(steps, document_ids, i) ==
  IF i > Len(document_ids) THEN [steps |-> steps, err |-> "None"]
  ELSE IF document_ids[i] \notin keys(steps[Len(steps)])
    THEN [steps |-> steps, err |-> "MissingDocumentError"]
    ELSE DeleteLoop(Append(steps, delitem(steps[Len(steps)], document_ids[i])),
                    document_ids, i + 1)

delete_documents(document_ids) ==
  LET run == DeleteLoop(<<storage>>, document_ids, 1)
  IN  /\ storage' = run.steps[Len(run.steps)]
      /\ last' = [op |-> "delete", document_ids |-> document_ids, pre |-> storage,
                  steps |-> run.steps, err |-> run.err]

IdLists == SeqsUpTo(Ids, MaxBatch)

DeleteDocuments ==
  /\ Idle
  /\ \E document_ids \in IdLists : delete_documents(document_ids)

(* ---------------------------- filter_documents ------------------------- *)
\* The filter arguments of the model. `form` and `content_type` give the
\* top-level "content_type" entry: absent (None or a dict without the key),
\* a bare string, a list, or a comparison mapping {"$eq": <str>}. `nested`
\* gives the entry "$and": {"content_type": <str>}, <<>> when the dict has
\* no "$and" key.
FilterNone == [form |-> "None", content_type |-> <<>>, nested |-> <<>>]

FilterEmpty == [form |-> "dict", content_type |-> <<>>, nested |-> <<>>]

Filters ==
  {FilterNone, FilterEmpty}
    \cup [form : {"str"}, content_type : {<<"text">>, <<"image">>}, nested : {<<>>}]
    \cup [form : {"list"}, content_type : {<<>>, <<"text", "table">>, <<"text", "image">>},
          nested : {<<>>}]
    \cup [form : {"cmp"}, content_type : {<<"text">>, <<"image">>}, nested : {<<>>}]
    \cup [form : {"dict"}, content_type : {<<>>}, nested : {<<"text">>, <<"image">>}]

\* "content_type" in filters: a top-level key only.
HasContentTypeKey(filters) == filters.form \in {"str", "list", "cmp"}

\* bool(filters): None and the empty dict are falsy.
Truthy(filters) == HasContentTypeKey(filters) \/ filters.nested # <<>>

\* match(conditions, document): the entries of a mapping are and-combined; a
\* bare string and {"$eq": <str>} are equality tests, a list a membership
\* test, "$and" recurses into its mapping.
match(conditions, document) ==
  /\ HasContentTypeKey(conditions) =>
       \E i \in DOMAIN conditions.content_type :
         conditions.content_type[i] = document.content_type
  /\ conditions.nested # <<>> => conditions.nested[1] = document.content_type

\* A filter that returns nothing when no filter is given.
filter_documents_value_EmptyWithoutFilter(st, filters) ==
  IF Truthy(filters)
    THEN SelectSeq(st, LAMBDA doc : match(filters, doc))
    ELSE <<>>

\* Lines 123-125.
filter_documents_value(st, filters) ==
  IF Truthy(filters)
    THEN SelectSeq(st, LAMBDA doc : match(filters, doc))
    ELSE st

CountDocuments ==
  /\ Idle
  /\ last' = [op |-> "count", pre |-> storage, err |-> "None",
              result |-> count_documents_value(storage)]
  /\ UNCHANGED storage

FilterDocuments ==
  /\ Idle
  /\ \E filters \in Filters :
    /\ last' = [op |-> "filter", filters |-> filters, pre |-> storage,
                err |-> "None", result |-> filter_documents_value(storage, filters)]
    /\ UNCHANGED storage

(* ----------------------------- bm25_retrieval -------------------------- *)
Queries == {"", "query"}

ScoreValues == (0 - MaxScore)..MaxScore

SeqToSet(s) == {s[i] : i \in DOMAIN s}

\* Lines 185-188: what `for type_ in content_types` iterates: the string
\* itself wrapped in a list, the elements of a list, the keys of a mapping.
ContentTypeItems(filters) ==
  IF filters.form = "cmp" THEN <<"$eq">> ELSE filters.content_type

\* Lines 184-188: the condition of the raise of line 189.
ContentTypeRejected(filters) ==
  /\ Truthy(filters)
  /\ HasContentTypeKey(filters)
  /\ \E i \in DOMAIN ContentTypeItems(filters) :
       ContentTypeItems(filters)[i] \notin {"text", "table"}

\* The argument checks with the content-type check ahead of the query check.
BM25ArgumentError_ContentTypeFirst(query, filters) ==
  IF ContentTypeRejected(filters) THEN "UnsupportedContentType"
  ELSE IF query = "" THEN "InvalidInput"
  ELSE "None"

\* Lines 179-191: the error raised before any filtering, "None" when the call
\* goes on.
BM25ArgumentError(query, filters) ==
  IF query = "" THEN "InvalidInput"
  ELSE IF ContentTypeRejected(filters) THEN "UnsupportedContentType"
  ELSE "None"

\* A retrieval that hands the caller's filter on without the restriction.
EffectiveFilter_NoMerge(filters) == filters

\* Lines 184-194: the filter handed to filter_documents; the else branch is
\* {**filters, "content_type": ["text", "table"]}.
EffectiveFilter(filters) ==
  IF Truthy(filters) /\ HasContentTypeKey(filters)
    THEN filters
    ELSE [form |-> "list", content_type |-> <<"text", "table">>,
          nested |-> filters.nested]

\* str.lower() on the contents of the model (a table is lowered after
\* to_csv has turned it into a string).
lower(content) ==
  CASE content = "Some Text" -> "some text"
    [] content = "A,B / 1,2" -> "a,b / 1,2"
    [] OTHER -> content

\* Lines 198-205: one corpus entry, the lowercase content, for each text or
\* table candidate, in candidate order; a candidate of another content type
\* adds nothing.
lower_case_documents(all_documents) ==
  LET scorable == SelectSeq(all_documents,
                            LAMBDA doc : doc.content_type \in {"text", "table"})
  IN  [i \in DOMAIN scorable |-> lower(scorable[i].content)]

\* A retrieval without the early return of lines 211-213.
EmptyCorpus_Never(tokenized_corpus) == FALSE

\* Line 211: len(tokenized_corpus) == 0.
EmptyCorpus(tokenized_corpus) == Len(tokenized_corpus) = 0

\* Line 216: the scorer divides the token count by the corpus size when it
\* is constructed, so an empty corpus raises.
bm25_algorithm_error(tokenized_corpus) ==
  IF Len(tokenized_corpus) = 0 THEN "ZeroDivisionError" ELSE "None"

\* e^(1 / SCALING_FACTOR) in thousandths (the series 1 + x + x^2/2 + x^3/6).
ExpStep ==
  1000 + (1000 \div SCALING_FACTOR)
       + (1000 \div (2 * SCALING_FACTOR * SCALING_FACTOR))
       + (1000 \div (6 * SCALING_FACTOR * SCALING_FACTOR * SCALING_FACTOR))

\* e^(score / SCALING_FACTOR) in thousandths.
RECURSIVE ExpScaled(_)
ExpScaled(score) ==
  IF score = 0 THEN 1000
  ELSE IF score > 0 THEN (ExpScaled(score - 1) * ExpStep) \div 1000
  ELSE (ExpScaled(score + 1) * 1000) \div ExpStep

\* expit(score / SCALING_FACTOR) in thousandths.
expit(score) == (1000 * ExpScaled(score)) \div (1000 + ExpScaled(score))

\* Lines 221-223.
ScaleScores(raw, scale_score) ==
  IF scale_score THEN [i \in DOMAIN raw |-> expit(raw[i])] ELSE raw

\* np.argsort(docs_scores): the permutations of the positions that put the
\* scores in ascending order (the default sort kind is not stable, so the
\* order among equal scores is not fixed).
Permutations_(n) ==
  {p \in [1..n -> 1..n] : \A i, j \in 1..n : i # j => p[i] # p[j]}

argsort(docs_scores) ==
  {p \in Permutations_(Len(docs_scores)) :
     \A i, j \in DOMAIN p : i < j => docs_scores[p[i]] <= docs_scores[p[j]]}

\* positions[-top_k:] for top_k >= 0: -0 is 0, so top_k = 0 slices from the start.
LastK(positions, top_k) ==
  IF top_k = 0 \/ top_k >= Len(positions)
    THEN positions
    ELSE SubSeq(positions, Len(positions) - top_k + 1, Len(positions))

\* A retrieval that returns the stored records themselves, no score attached.
return_documents_Live(all_documents, docs_scores, top_docs_positions) ==
  [k \in DOMAIN top_docs_positions |-> all_documents[top_docs_positions[k]]]

\* A retrieval that builds its results from the lowercase corpus text.
return_documents_Lowered(all_documents, docs_scores, top_docs_positions) ==
  [k \in DOMAIN top_docs_positions |->
     [all_documents[top_docs_positions[k]]
        EXCEPT !.score = <<docs_scores[top_docs_positions[k]]>>,
               !.content = lower(@)]]

\* Lines 228-235: a new Document per selected position, with the score of
\* that position attached.
return_documents(all_documents, docs_scores, top_docs_positions) ==
  [k \in DOMAIN top_docs_positions |->
     [all_documents[top_docs_positions[k]]
        EXCEPT !.score = <<docs_scores[top_docs_positions[k]]>>]]

BM25Outcome(query, filters, top_k, scale_score, err, all_documents, docs_scores, result) ==
  [op |-> "bm25", query |-> query, filters |-> filters, top_k |-> top_k,
   scale_score |-> scale_score, pre |-> storage, err |-> err,
   all_documents |-> all_documents, docs_scores |-> docs_scores, result |-> result]

bm25_retrieval(query, filters, top_k, scale_score) ==
  LET err == BM25ArgumentError(query, filters)
      all_documents == filter_documents_value(storage, EffectiveFilter(filters))
      corpus == lower_case_documents(all_documents)
  IN  /\ UNCHANGED storage
      /\ IF err # "None"
           THEN last' = BM25Outcome(query, filters, top_k, scale_score, err, <<>>, <<>>, <<>>)
         ELSE IF EmptyCorpus(corpus)
           THEN last' = BM25Outcome(query, filters, top_k, scale_score, "None",
                                    all_documents, <<>>, <<>>)
         ELSE IF bm25_algorithm_error(corpus) # "None"
           THEN last' = BM25Outcome(query, filters, top_k, scale_score,
                                    bm25_algorithm_error(corpus), all_documents, <<>>, <<>>)
         ELSE \E raw \in [1..Len(corpus) -> ScoreValues] :
                LET docs_scores == ScaleScores(raw, scale_score)
                IN  \E sorted \in argsort(docs_scores) :
                      last' = BM25Outcome(query, filters, top_k, scale_score, "None",
                                all_documents, docs_scores,
                                return_documents(all_documents, docs_scores,
                                                 LastK(sorted, top_k)))

BM25Retrieval ==
  /\ Idle
  /\ \E query \in Queries, filters \in Filters, top_k \in 0..MaxTopK, scale_score \in BOOLEAN :
       bm25_retrieval(query, filters, top_k, scale_score)

(* ------------------------------ the store ------------------------------ *)
Init ==
  /\ storage = <<>>
  /\ \E bm25_algorithm \in AlgorithmNames : last = Construct(bm25_algorithm)

Next ==
  \/ WriteDocuments
  \/ DeleteDocuments
  \/ CountDocuments
  \/ FilterDocuments
  \/ BM25Retrieval
  \/ Return

Spec == Init /\ [][Next]_vars

(* ------------------- two calls on one store at a time ------------------ *)
\* The store takes no lock: two threads calling into one instance interleave
\* between the membership test of line 148 and the assignment of line 153.
\* `last` holds both calls in flight. Call 1 is write_documents(duplicates=
\* "fail"); call 2 is a second such write or filter_documents(). The two
\* writers carry records of their own (text, table), so a replaced record
\* shows.
Threads == {1, 2}

ThreadDocuments(t) ==
  {doc \in Document : doc.content_type = (IF t = 1 THEN "text" ELSE "table")}

ThreadBatches(t) == SeqsUpTo(ThreadDocuments(t), MaxBatch) \ {<<>>}

WriteCall(documents) ==
  [kind |-> "write", documents |-> documents, i |-> 1, pc |-> "check",
   err |-> "None", result |-> <<>>]

FilterCall ==
  [kind |-> "filter", documents |-> <<>>, i |-> 1, pc |-> "read",
   err |-> "None", result |-> <<>>]

InitThreads ==
  /\ storage = <<>>
  /\ \E d1 \in ThreadBatches(1) :
       \E c2 \in {WriteCall(d2) : d2 \in ThreadBatches(2)} \cup {FilterCall} :
         last = [op |-> "threads", err |-> "None", calls |-> <<WriteCall(d1), c2>>]

\* Lines 147-150 for the document at hand: the loop ends, raises, or goes on
\* to the assignment.
ThreadCheck(t) ==
  LET c == last.calls[t]
  IN  /\ c.pc = "check"
      /\ UNCHANGED storage
      /\ last' = [last EXCEPT !.calls[t] =
                    IF c.i > Len(c.documents) THEN [c EXCEPT !.pc = "done"]
                    ELSE IF c.documents[c.i].id \in keys(storage)
                      THEN [c EXCEPT !.pc = "done", !.err = "DuplicateDocumentError"]
                    ELSE [c EXCEPT !.pc = "assign"]]

\* Line 153, then the next round of the loop.
ThreadAssign(t) ==
  LET c == last.calls[t]
  IN  /\ c.pc = "assign"
      /\ storage' = setitem(storage, c.documents[c.i])
      /\ last' = [last EXCEPT !.calls[t] = [c EXCEPT !.pc = "check", !.i = c.i + 1]]

\* Line 125: list(self.storage.values()) of the dict as it is now.
ThreadFilter(t) ==
  LET c == last.calls[t]
  IN  /\ c.pc = "read"
      /\ UNCHANGED storage
      /\ last' = [last EXCEPT !.calls[t] =
                    [c EXCEPT !.pc = "done",
                              !.result = filter_documents_value(storage, FilterNone)]]

NextThreads ==
  \E t \in Threads : ThreadCheck(t) \/ ThreadAssign(t) \/ ThreadFilter(t)

SpecThreads == InitThreads /\ [][NextThreads]_vars

(* ============================== properties ============================= *)
IsWrite == last.op = "write"

\* A write whose argument passes the guard and is iterated by the loop from
\* its start: a list of Documents.
IsListWrite == IsWrite /\ last.kind = "list" /\ ~AnyNotDocument(last.documents)

BatchIds(docs) == {docs[i].id : i \in DOMAIN docs}

\* Position i of the batch meets an id that is already a key: stored before
\* the call or carried by an earlier position of the batch.
AlreadyStoredAt(pre, docs, i) ==
  \/ docs[i].id \in keys(pre)
  \/ \E j \in 1..(i - 1) : docs[j].id = docs[i].id

\* The first such position, 0 when there is none.
FirstDuplicate(pre, docs) ==
  IF \E i \in DOMAIN docs : AlreadyStoredAt(pre, docs, i)
    THEN CHOOSE i \in DOMAIN docs :
           /\ AlreadyStoredAt(pre, docs, i)
           /\ \A j \in 1..(i - 1) : ~AlreadyStoredAt(pre, docs, j)
    ELSE 0

\* The record an id holds once position i has been reached without replacing
\* anything: the stored one, else the first of the batch with that id.
FirstRecord(pre, docs, id) ==
  IF id \in keys(pre) THEN getitem(pre, id)
  ELSE docs[CHOOSE i \in DOMAIN docs :
              docs[i].id = id /\ \A j \in 1..(i - 1) : docs[j].id # id]

Without(st, ids) == SelectSeq(st, LAMBDA doc : doc.id \notin ids)

\* C1: a "skip" write of a list of Documents does not raise, and every id of
\* the batch that was already a key when its document was processed still
\* holds the record it held then (the stored one, or the first of the batch).
C1_SkipKeepsExistingRecord ==
  (IsListWrite /\ last.duplicates = "skip") =>
    /\ last.err = "None"
    /\ \A i \in DOMAIN last.documents :
         AlreadyStoredAt(last.pre, last.documents, i) =>
           /\ last.documents[i].id \in keys(storage)
           /\ getitem(storage, last.documents[i].id)
                = FirstRecord(last.pre, last.documents, last.documents[i].id)

\* C2: under every policy, a batch (list or other iterable) of Documents with
\* pairwise distinct ids, none of them stored, is written without error: the
\* count grows by the length of the batch and each document is stored under
\* its id.
C2_NewDocumentsAreCounted ==
  ( /\ IsWrite
    /\ last.kind \in {"list", "iterator"}
    /\ ~AnyNotDocument(last.documents)
    /\ FirstDuplicate(last.pre, last.documents) = 0 ) =>
    /\ last.err = "None"
    /\ count_documents_value(storage)
         = count_documents_value(last.pre) + Len(last.documents)
    /\ \A i \in DOMAIN last.documents :
         /\ last.documents[i].id \in keys(storage)
         /\ getitem(storage, last.documents[i].id) = last.documents[i]

\* C3: no "fail" write replaces a record that was stored before the call, and
\* a "fail" write of a list that meets an already stored id raises
\* DuplicateDocumentError with every id still holding its first record.
C3_FailRaisesAndKeepsFirst ==
  (IsWrite /\ last.duplicates = "fail") =>
    /\ \A id \in keys(last.pre) :
         id \in keys(storage) /\ getitem(storage, id) = getitem(last.pre, id)
    /\ (IsListWrite /\ FirstDuplicate(last.pre, last.documents) # 0) =>
         /\ last.err = "DuplicateDocumentError"
         /\ \A id \in keys(storage) :
              getitem(storage, id) = FirstRecord(last.pre, last.documents, id)

C3_Witness ==
  /\ IsListWrite
  /\ last.duplicates = "fail"
  /\ last.err = "DuplicateDocumentError"
  /\ \E i \in DOMAIN last.documents :
       /\ last.documents[i].id \in keys(last.pre)
       /\ last.documents[i] # getitem(last.pre, last.documents[i].id)

\* C4: an "overwrite" write of a list of Documents does not raise; the keys
\* afterwards are the old keys and the batch's ids, so the count is unchanged
\* when every id was stored; each id of the batch holds the last document of
\* the batch with that id.
C4_OverwriteStoresLast ==
  (IsListWrite /\ last.duplicates = "overwrite") =>
    /\ last.err = "None"
    /\ keys(storage) = keys(last.pre) \cup BatchIds(last.documents)
    /\ BatchIds(last.documents) \subseteq keys(last.pre) =>
         count_documents_value(storage) = count_documents_value(last.pre)
    /\ \A i \in DOMAIN last.documents :
         (\A j \in (i + 1)..Len(last.documents) :
            last.documents[j].id # last.documents[i].id) =>
           getitem(storage, last.documents[i].id) = last.documents[i]

C4_Witness ==
  /\ IsListWrite
  /\ last.duplicates = "overwrite"
  /\ Len(last.documents) >= 2
  /\ last.documents[1].id = last.documents[2].id
  /\ last.documents[1] # last.documents[2]
  /\ last.documents[1].id \in keys(last.pre)
  /\ getitem(last.pre, last.documents[1].id) # last.documents[2]
  /\ getitem(storage, last.documents[1].id) = last.documents[2]

\* C5: a write given a string, a non-iterable or an iterable with an element
\* that is not a Document raises the invalid-input error and leaves the
\* storage map as it was.
C5_InvalidBatchWritesNothing ==
  ( /\ IsWrite
    /\ \/ last.kind \in {"str", "noniterable"}
       \/ AnyNotDocument(last.documents) ) =>
    /\ last.err = "InvalidInput"
    /\ storage = last.pre

C5_Witness ==
  /\ IsWrite
  /\ last.kind = "list"
  /\ Len(last.documents) >= 2
  /\ isinstance_Document(last.documents[1])
  /\ last.documents[1].id \notin keys(last.pre)
  /\ ~isinstance_Document(last.documents[Len(last.documents)])
  /\ last.err = "InvalidInput"
  /\ storage = last.pre

\* C6: a "fail" write of a list whose first already-stored id is at position
\* i raises DuplicateDocumentError and leaves the map holding what it held
\* before the call plus the documents of positions 1..i-1, nothing else.
C6_FailKeepsEarlierWrites ==
  ( /\ IsListWrite
    /\ last.duplicates = "fail"
    /\ FirstDuplicate(last.pre, last.documents) # 0 ) =>
    /\ last.err = "DuplicateDocumentError"
    /\ storage = last.pre \o SubSeq(last.documents, 1,
                                    FirstDuplicate(last.pre, last.documents) - 1)

C6_Witness ==
  /\ IsListWrite
  /\ last.duplicates = "fail"
  /\ last.err = "DuplicateDocumentError"
  /\ FirstDuplicate(last.pre, last.documents) >= 2
  /\ last.documents[1].id \in keys(storage)
  /\ last.documents[1].id \notin keys(last.pre)

\* The first position of a delete call whose id is not a key when it is
\* reached: absent before the call or removed by an earlier position.
MissingAt(pre, ids, i) ==
  \/ ids[i] \notin keys(pre)
  \/ \E j \in 1..(i - 1) : ids[j] = ids[i]

FirstMissing(pre, ids) ==
  IF \E i \in DOMAIN ids : MissingAt(pre, ids, i)
    THEN CHOOSE i \in DOMAIN ids :
           MissingAt(pre, ids, i) /\ \A j \in 1..(i - 1) : ~MissingAt(pre, ids, j)
    ELSE 0

\* C7: a delete raises MissingDocumentError at the first id that is not a key
\* when it is reached, with exactly the ids before it removed; with no such id
\* it removes exactly the ids given; a single absent id changes nothing.
C7_DeleteStopsAtFirstMissing ==
  (last.op = "delete") =>
    LET i == FirstMissing(last.pre, last.document_ids)
    IN  /\ i # 0 =>
             /\ last.err = "MissingDocumentError"
             /\ storage = Without(last.pre, {last.document_ids[j] : j \in 1..(i - 1)})
        /\ i = 0 =>
             /\ last.err = "None"
             /\ storage = Without(last.pre, SeqToSet(last.document_ids))
        /\ i = 1 =>
             /\ storage = last.pre
             /\ count_documents_value(storage) = count_documents_value(last.pre)

C7_Witness ==
  /\ last.op = "delete"
  /\ last.err = "MissingDocumentError"
  /\ Len(last.document_ids) >= 2
  /\ last.document_ids[1] = last.document_ids[2]
  /\ last.document_ids[1] \in keys(last.pre)
  /\ last.document_ids[1] \notin keys(storage)
  /\ storage # <<>>

IsRetrieval == last.op = "bm25" /\ last.err = "None"

Unscored(doc) == [doc EXCEPT !.score = <<>>]

\* C8: a retrieval that returns gives at most top_k documents, and all the
\* candidates when top_k is at least the number of candidates.
C8_AtMostTopK ==
  IsRetrieval =>
    /\ Len(last.result) <= last.top_k
    /\ last.top_k >= Len(last.all_documents) =>
         /\ Len(last.result) = Len(last.all_documents)
         /\ {Unscored(last.result[k]) : k \in DOMAIN last.result}
              = SeqToSet(last.all_documents)

\* C9: the result of a retrieval is in descending order of score, and no
\* candidate left out of it scores strictly higher than a returned one
\* (stated for top_k >= 1, where the slice of line 225 keeps the top_k
\* highest scores).
C9_DescendingScores ==
  (IsRetrieval /\ last.top_k >= 1) =>
    /\ \A k \in 1..(Len(last.result) - 1) :
         last.result[k].score[1] >= last.result[k + 1].score[1]
    /\ \A c \in DOMAIN last.docs_scores :
         (\A k \in DOMAIN last.result : last.result[k].id # last.all_documents[c].id) =>
           \A k \in DOMAIN last.result : last.docs_scores[c] <= last.result[k].score[1]

\* C10: a retrieval with an empty query raises the invalid-input error,
\* whatever the filters, top_k and scale_score, and leaves the map unchanged.
C10_EmptyQueryIsInvalidInput ==
  (last.op = "bm25" /\ last.query = "") =>
    /\ last.err = "InvalidInput"
    /\ last.result = <<>>
    /\ storage = last.pre

C10_Witness ==
  /\ last.op = "bm25"
  /\ last.query = ""
  /\ last.err = "InvalidInput"
  /\ last.filters.form = "str"
  /\ last.filters.content_type = <<"image">>
  /\ storage # <<>>

\* A retrieval call that got past the query check.
IsQuery == last.op = "bm25" /\ last.query # ""

Scorable(doc) == doc.content_type \in {"text", "table"}

\* The caller's filter names a content type other than text and table: as a
\* bare string, in a list, in a comparison mapping or under "$and".
ConstrainsOutside(filters) ==
  \/ /\ HasContentTypeKey(filters)
     /\ \E i \in DOMAIN filters.content_type :
          filters.content_type[i] \notin {"text", "table"}
  \/ /\ filters.nested # <<>>
     /\ filters.nested[1] \notin {"text", "table"}

\* C11: with a non-empty query, a filter naming a content type outside text
\* and table, in any of its forms, makes the retrieval raise the
\* unsupported-content-type error; every other filter is and-combined with
\* the text/table restriction, so the candidates are the stored text and
\* table documents that match it.
C11_ContentTypeConflictFailsFast ==
  IsQuery =>
    IF ConstrainsOutside(last.filters)
      THEN last.err = "UnsupportedContentType"
      ELSE /\ last.err = "None"
           /\ last.all_documents
                = SelectSeq(last.pre,
                            LAMBDA doc : Scorable(doc) /\ match(last.filters, doc))

\* No stored document is a text or table document matching the filter.
NoCandidate(pre, filters) ==
  \A i \in DOMAIN pre : ~(Scorable(pre[i]) /\ match(filters, pre[i]))

\* C12: a retrieval with a non-empty query whose filter is not rejected
\* returns the empty list, without error, when no stored document matches
\* the filter and the text/table restriction.
C12_NoCandidateReturnsEmpty ==
  (IsQuery /\ last.err # "UnsupportedContentType" /\ NoCandidate(last.pre, last.filters)) =>
    /\ last.err = "None"
    /\ last.result = <<>>

C12_Witness ==
  /\ IsQuery
  /\ last.err = "None"
  /\ last.result = <<>>
  /\ last.pre # <<>>
  /\ \A i \in DOMAIN last.pre : last.pre[i].content_type = "image"
  /\ ~Truthy(last.filters)

\* C13: count_documents, filter_documents and bm25_retrieval, returning or
\* raising, leave the map as it was and no stored record carries a score;
\* the documents bm25_retrieval returns carry a score and are none of the
\* stored records.
C13_ReadsLeaveStorageAlone ==
  (last.op \in {"count", "filter", "bm25"}) =>
    /\ storage = last.pre
    /\ \A i \in DOMAIN storage : storage[i].score = <<>>
    /\ last.op = "bm25" =>
         \A k \in DOMAIN last.result :
           /\ last.result[k].score # <<>>
           /\ last.result[k] \notin SeqToSet(storage)

C13_Witness ==
  /\ IsQuery
  /\ last.err = "None"
  /\ Len(last.result) >= 2
  /\ last.scale_score
  /\ storage = last.pre

\* C14: filter_documents without a filter (None or {}) returns the stored
\* documents, each once and in the order of the map, as a value of its own,
\* and leaves the map as it was.
C14_NoFilterReturnsAll ==
  (last.op = "filter" /\ ~Truthy(last.filters)) =>
    /\ last.result = last.pre
    /\ storage = last.pre
    /\ Len(last.result) = count_documents_value(storage)
    /\ \A i, j \in DOMAIN last.result :
         i # j => last.result[i].id # last.result[j].id

C14_Witness ==
  /\ last.op = "filter"
  /\ last.filters = FilterEmpty
  /\ Len(last.result) >= 2
  /\ last.result = storage

\* C15: constructing the store with a bm25_algorithm name that is not a
\* known scorer fails with the store's own unknown-algorithm ValueError.
C15_UnknownAlgorithmIsValueError ==
  (last.op = "init" /\ last.bm25_algorithm \notin {"BM25Okapi", "BM25L", "BM25Plus"}) =>
    last.err = "UnknownAlgorithm"

\* The candidate at position c is among the returned documents.
Returned(c) ==
  \E k \in DOMAIN last.result : last.result[k].id = last.all_documents[c].id

\* C16: when candidates with equal score straddle the top_k cut-off, the one
\* earlier in the candidate sequence is the one selected (stated for
\* top_k >= 1; the order of equal scores inside the result is left to the
\* sort).
C16_TiesKeepEarlierCandidate ==
  (IsRetrieval /\ last.top_k >= 1) =>
    \A a, b \in DOMAIN last.docs_scores :
      (a < b /\ last.docs_scores[a] = last.docs_scores[b] /\ Returned(b)) => Returned(a)

\* C17: the documents filter_documents and bm25_retrieval return are records
\* of the map as it is at the call: each has a stored id and the content and
\* content type stored under that id.
C17_ReadsReflectCurrentMap ==
  (last.op \in {"filter", "bm25"} /\ last.err = "None") =>
    \A k \in DOMAIN last.result :
      /\ last.result[k].id \in keys(storage)
      /\ Unscored(last.result[k]) = getitem(storage, last.result[k].id)

C17_Witness ==
  /\ last.op = "bm25"
  /\ last.err = "None"
  /\ last.result # <<>>
  /\ Len(last.result) < Len(storage)
  /\ \E k \in DOMAIN last.result : last.result[k].content_type = "table"

\* C18: every candidate of a retrieval is a text or table document, there is
\* one score per candidate, each returned document is a candidate carrying
\* the score of its own position, and no candidate is returned twice.
C18_CorpusAlignedWithCandidates ==
  IsRetrieval =>
    /\ \A c \in DOMAIN last.all_documents : Scorable(last.all_documents[c])
    /\ Len(last.docs_scores) = Len(last.all_documents)
    /\ \A k \in DOMAIN last.result :
         /\ Scorable(last.result[k])
         /\ \E c \in DOMAIN last.all_documents :
              /\ last.all_documents[c] = Unscored(last.result[k])
              /\ last.result[k].score = <<last.docs_scores[c]>>
    /\ \A k, m \in DOMAIN last.result :
         k # m => last.result[k].id # last.result[m].id

C18_Witness ==
  /\ IsRetrieval
  /\ ~Truthy(last.filters)
  /\ Len(last.result) >= 1
  /\ Len(last.pre) >= 2
  /\ last.pre[1].content_type = "image"
  /\ last.docs_scores[1] # 0

\* C19: in every state the map holds one record per id, each under its own
\* id, and count_documents() is the number of distinct stored ids.
C19_OneRecordPerId ==
  /\ \A i, j \in DOMAIN storage : i # j => storage[i].id # storage[j].id
  /\ \A i \in DOMAIN storage : isinstance_Document(storage[i])
  /\ count_documents_value(storage) = Cardinality(keys(storage))

C19_Witness ==
  /\ IsListWrite
  /\ last.duplicates \in {"skip", "overwrite"}
  /\ last.err = "None"
  /\ \E i \in DOMAIN last.documents : last.documents[i].id \in keys(last.pre)
  /\ Len(storage) >= 2
  /\ Len(storage) = Len(last.pre)

\* C20: of two concurrent "fail" writes that carry the same previously absent
\* id, at most one returns without DuplicateDocumentError, and
\* filter_documents running beside a write sees the map either before or
\* after the whole batch.
C20_WritesAreExclusive ==
  (last.op = "threads" /\ \A t \in Threads : last.calls[t].pc = "done") =>
    /\ ( /\ last.calls[2].kind = "write"
         /\ BatchIds(last.calls[1].documents) \cap BatchIds(last.calls[2].documents) # {} ) =>
         ~(last.calls[1].err = "None" /\ last.calls[2].err = "None")
    /\ ( /\ last.calls[2].kind = "filter"
         /\ FirstDuplicate(<<>>, last.calls[1].documents) = 0 ) =>
         last.calls[2].result \in {<<>>, last.calls[1].documents}

====
